---- MODULE Spec2Model ----
(***************************************************************************)
(* Inbound change processor of the China backend: the Kafka consumer       *)
(* (handleMessage), the conflict resolver (resolveConflict) and the sync   *)
(* metrics store (SyncMetrics), over a model of the local PostgreSQL store.*)
(*                                                                         *)
(* Specifications.  Spec: the consumer handling well-formed messages, one  *)
(* handleMessage call per step.  SpecEdge: the same consumer fed malformed  *)
(* and boundary messages, with calls that fail.  SpecMetrics: a long run of *)
(* recordSync calls.  SpecProcess: startServer, the signal handlers and the *)
(* consumer running handleMessage one await at a time.  SpecResolver: the   *)
(* consumer fed the changes that exercise the resolver's rules, in both     *)
(* envelope shapes.  SpecStats: recordSync calls interleaved with reads of  *)
(* the metrics store.  SpecSink: the consumer fed one message of each kind  *)
(* of outcome.  SpecApi: the consumer and PUT /api/products/:id sharing the *)
(* store, one statement at a time.                                          *)
(*                                                                         *)
(* Time.  Instants are milliseconds counted from a base instant B of the   *)
(* present epoch (B is about 1.7e12 ms, far above the 1e11 threshold the   *)
(* code tests numbers against).  A numeric Debezium timestamp is carried   *)
(* as [tag |-> "us", n |-> k]: the number B*1000 + k microseconds, which   *)
(* is always > 1e11; Math.floor(ts / 1000) of it is the instant k \div 1000.*)
(***************************************************************************)
EXTENDS Integers, Sequences, FiniteSets, TLC

VARIABLES
    region,     \* config.region (process.env.REGION || 'china')
    db,         \* local store: table -> (id -> row), rows present only
    metrics,    \* SyncMetrics.metrics: direction -> sequence of events
    recordSyncTimes, \* SyncMetrics.recordSyncTimes, in insertion order
    now,        \* the server clock (Date.now(), NOW())
    handled,    \* messages handled so far by eachMessage
    calls,      \* direction -> calls of recordSync so far
    producerConnected, \* conflictResolver's producerConnected flag
    proc,       \* the process: startServer's progress, exit code, signals
    handler,    \* the handleMessage call in progress, step by step
    last,       \* what handling the latest message did
    reply       \* what the latest read of the metrics store returned

vars == <<region, db, metrics, recordSyncTimes, now, handled, calls,
          producerConnected, proc, handler, last, reply>>

----------------------------------------------------------------------------
(* Bounds of the model *)

MaxMsgs == 2
MaxNow == 3500
MaxCalls == 1200
MaxFreeCalls == 2
MaxStatCalls == 140
PollEvery == 70

(* Program constants *)

LoopWindowMs == 1000
TieWindowMs == 100
MicrosPerMs == 1000
maxEvents == 100
MaxRecordSyncTimes == 1000
RecentSyncs == 10
LastMinuteMs == 60000
NullTime == -1

Regions == {"india", "china"}
Tables == {"users", "products", "sales"}
Ids == {1, 2}
Ops == {"c", "u", "d"}
NoOp == "none"
NoId == 0
NaN == -1
NoOrigin == "none"

PRIVATE_FIELDS ==
    {"username", "email", "full_name", "phone", "user_email", "user_phone",
     "user_name", "creator_name", "creator_email", "creator_phone",
     "salesperson_name", "salesperson_email", "salesperson_phone"}

FOREIGN_KEY_FIELDS == {"created_by_user_id", "salesperson_user_id"}

(* Columns of the local tables (the part of each table the model carries). *)
Schema(t) ==
    CASE t = "users" -> {"id", "username", "email", "updated_at"}
      [] t = "products" ->
            {"id", "stock_quantity", "created_by_user_id", "sync_source",
             "version", "updated_at"}
      [] t = "sales" ->
            {"id", "quantity", "total_amount", "salesperson_user_id",
             "sync_source", "version", "updated_at"}

(* Columns whose numbers the model carries tagged: [tag |-> "num", n |-> k] *)
(* is the number k, [tag |-> "us", n |-> k] the number B*1000 + k (above    *)
(* 1e11), [tag |-> "date", n |-> k] the Date of instant k.                  *)
NumberColumns == {"total_amount"}

(* Column values a fresh row gets for columns the INSERT does not name. *)
DefaultValue(c, nowv) ==
    CASE c = "updated_at" -> nowv
      [] c \in NumberColumns -> [tag |-> "num", n |-> 0]
      [] c \in FOREIGN_KEY_FIELDS -> "NULL"
      [] c \in {"sync_source", "username", "email"} -> "NULL"
      [] OTHER -> 0

----------------------------------------------------------------------------
(* Messages on the bus *)

(* after.updated_at as Debezium sends it: microseconds. *)
PayloadMicros == {1300999, 2000000, 4000000}

DataColumn(t) ==
    CASE t = "products" -> "stock_quantity"
      [] t = "sales" -> "quantity"
      [] t = "users" -> "username"

UserKeyColumn(t) == IF t = "sales" THEN "salesperson_user_id" ELSE "created_by_user_id"

(* The post-images a change on table t can carry: the bare row image, and  *)
(* the image with a user reference, every private column, a version,      *)
(* sync_source and a metadata column.                                      *)
PlainAfter(t, i, q, us) ==
    ("id" :> i) @@ (DataColumn(t) :> q) @@ ("updated_at" :> [tag |-> "us", n |-> us])

FullAfter(t, i, q, us, origin) ==
    PlainAfter(t, i, q, us) @@ (UserKeyColumn(t) :> "peer_42")
        @@ [c \in PRIVATE_FIELDS |-> "peer_pii"]
        @@ ("version" :> 2) @@ ("sync_source" :> origin) @@ ("_deleted" :> "false")

Afters(t, origin) ==
    IF t = "users" THEN {PlainAfter(t, 1, "bob", 2000000) @@ ("email" :> "b@x")}
    ELSE {PlainAfter(t, i, us \div 500000, us) : i \in Ids, us \in PayloadMicros}
           \cup {FullAfter(t, i, 9, us, origin) : i \in Ids, us \in PayloadMicros}

(* A delete carries no post-image: newData falls back to the value itself. *)
FlatValue(op, origin) == ("op" :> op) @@ ("_sync_origin" :> origin)

Topic(t) == "sync." \o t

(* A message: keyText and valueText say what message.key and message.value *)
(* hold ("json", "null", or "garbage", which JSON.parse rejects); the other *)
(* fields are the parsed key's id, and the value's op, post-image and       *)
(* _sync_origin.  shape says where the value holds these three: at its top  *)
(* level ("flat") or under payload ("wrapped").  Without a post-image,      *)
(* after holds what a flat value has at its top level.                      *)
Keyed(t, o, op, i, a) ==
    [topic |-> Topic(t), shape |-> "flat", keyText |-> "json", valueText |-> "json",
     keyId |-> i, op |-> op, hasAfter |-> TRUE, after |-> a, origin |-> o]

Change(t, o, op, a) == Keyed(t, o, op, a["id"], a)

Delete(t, o, i) ==
    [topic |-> Topic(t), shape |-> "flat", keyText |-> "json", valueText |-> "json",
     keyId |-> i, op |-> "d", hasAfter |-> FALSE,
     after |-> FlatValue("d", o), origin |-> o]

(* A delete whose value carries the row's columns at the top level. *)
DeleteWithImage(t, o, i, us) ==
    [topic |-> Topic(t), shape |-> "flat", keyText |-> "json", valueText |-> "json",
     keyId |-> i, op |-> "d", hasAfter |-> FALSE,
     after |-> FlatValue("d", o) @@ PlainAfter(t, i, 0, us), origin |-> o]

(* A change whose value has no post-image ("after" absent or null). *)
WithoutAfter(t, o, op, i) ==
    [topic |-> Topic(t), shape |-> "flat", keyText |-> "json", valueText |-> "json",
     keyId |-> i, op |-> op, hasAfter |-> FALSE,
     after |-> FlatValue(op, o), origin |-> o]

NoVals == [c \in {} |-> 0]

(* A message whose key or value is not a JSON object. *)
Raw(t, keyText, valueText, i) ==
    [topic |-> Topic(t), shape |-> "flat", keyText |-> keyText, valueText |-> valueText,
     keyId |-> i, op |-> NoOp, hasAfter |-> FALSE, after |-> NoVals,
     origin |-> NoOrigin]

(* Messages that cannot be decoded into a change of a known row: tombstones, *)
(* unparseable keys and values, values without _sync_origin, and changes    *)
(* with no id in the key or in the payload.                                 *)
Undecodable ==
    {Raw("sales", "json", "null", 1), Raw("products", "null", "null", NoId),
     Raw("sales", "json", "garbage", 1), Raw("sales", "garbage", "json", NoId),
     Keyed("sales", NoOrigin, "u", 1, PlainAfter("sales", 1, 8, 4000000)),
     Keyed("sales", "india", "u", NoId,
           ("quantity" :> 8) @@ ("updated_at" :> [tag |-> "us", n |-> 4000000])),
     [Delete("products", "india", 1) EXCEPT !.keyId = NoId]}

(* Changes at the boundary: creates with an empty or absent post-image, a   *)
(* change naming a column the local table does not have, and deletes that   *)
(* carry a timestamp.                                                       *)
Boundary ==
    {Keyed("sales", "india", "c", i, NoVals) : i \in Ids}
      \cup {WithoutAfter("sales", "india", "c", i) : i \in Ids}
      \cup {Change("sales", "india", "u",
                    PlainAfter("sales", 1, 8, 4000000) @@ ("gst_rate" :> 18))}
      \cup {DeleteWithImage(t, "india", 1, us) :
                t \in {"products", "sales"}, us \in {1300999, 4000000}}

(* Every (table, origin, op) with one post-image, every post-image on the  *)
(* (table, origin, op) the consumer lets through, and deletes of every id.  *)
Envelopes ==
    {Change(t, o, op, FullAfter(t, i, 9, 2000000, o)) :
        t \in Tables \ {"users"}, o \in Regions, op \in {"c", "u"}, i \in Ids}
      \cup UNION {{Change("users", o, op, a) : op \in {"c", "u"}, a \in Afters("users", o)}
                    : o \in Regions}
      \cup UNION {{Change(t, o, "u", a) : a \in Afters(t, o)}
                    : t \in {"products", "sales"}, o \in {"india"}}
      \cup {Delete(t, o, 1) : t \in Tables, o \in Regions}
      \cup {Delete(t, "india", 2) : t \in {"products", "sales"}}

(* The messages of the runs that exercise the resolver: sales changes of    *)
(* the row the store holds (updated_at 1000) that are older by 1000 ms, at  *)
(* the same instant, 50 ms and 1000 ms newer and ahead of the server clock, *)
(* with and without a version; changes of a row the store does not hold;    *)
(* deletes; changes carrying a number column; each in both shapes.          *)
ResolverMicros == {0, 1000000, 1050000, 2000000, 4000000}

Wrapped(e) == [e EXCEPT !.shape = "wrapped"]

FlatResolverEnvelopes ==
    {Change("sales", "india", "u", PlainAfter("sales", 1, 8, us)) : us \in ResolverMicros}
      \cup {Change("sales", "india", "u", FullAfter("sales", 1, 9, us, "india")) :
                us \in {1000000, 1050000, 2000000}}
      \cup {Change("sales", "india", "c", PlainAfter("sales", 2, 4, 4000000)),
            Change("sales", "india", "c", FullAfter("sales", 2, 9, 2000000, "india")),
            Change("sales", "india", "u", PlainAfter("sales", 2, 4, 0)),
            WithoutAfter("sales", "india", "c", 2),
            Delete("sales", "india", 1), Delete("sales", "india", 2),
            Change("products", "india", "u", FullAfter("products", 1, 9, 2000000, "india")),
            Change("sales", "india", "u",
                   PlainAfter("sales", 1, 8, 2000000)
                     @@ ("total_amount" :> [tag |-> "num", n |-> 250])),
            Change("sales", "india", "u",
                   PlainAfter("sales", 1, 8, 2000000)
                     @@ ("total_amount" :> [tag |-> "us", n |-> 7000000]))}

ResolverEnvelopes == FlatResolverEnvelopes \cup {Wrapped(e) : e \in FlatResolverEnvelopes}

(* What can fail while a message is handled: producer.connect(), the SELECT *)
(* of the local row, the mutation.                                          *)
Faults == {"connect", "select", "mutation"}
NoFault == "none"

(* A delivery is a message and the failure (if any) its handling meets.     *)
FaultProbes ==
    {Change("sales", "india", "u", PlainAfter("sales", 1, 8, 4000000)),
     Change("sales", "india", "c", PlainAfter("sales", 2, 4, 2000000)),
     Delete("sales", "india", 1)}

(* The messages of the runs that meet failures and malformed input. *)
EdgeEnvelopes ==
    Undecodable \cup Boundary \cup FaultProbes
      \cup {Delete(t, "india", 1) : t \in {"products", "sales"}}

Deliveries ==
    {[envelope |-> e, fault |-> NoFault] : e \in EdgeEnvelopes}
      \cup {[envelope |-> e, fault |-> f] : e \in FaultProbes, f \in Faults}

(* A change whose value has no op. *)
WithoutOp(e) == [e EXCEPT !.op = NoOp]

(* A post-image whose updated_at is not a timestamp. *)
InvalidTimestamp == [tag |-> "invalid", n |-> 0]

(* The messages of the runs that follow each kind of outcome to the sink    *)
(* and the metrics store: product updates of a row the store does not hold  *)
(* (with and without op), rejected changes, changes of an existing row      *)
(* without a usable updated_at, applied, suppressed and failing changes, a  *)
(* tombstone and an applied delete.                                         *)
SinkEnvelopes ==
    {Change("products", "india", "u", PlainAfter("products", 2, 7, 2000000)),
     WithoutOp(Change("products", "india", "u", PlainAfter("products", 2, 7, 2000000))),
     Change("products", "india", "c", PlainAfter("products", 2, 7, 2000000)),
     Change("sales", "china", "u", PlainAfter("sales", 1, 8, 4000000)),
     Keyed("sales", "india", "u", 1,
           ("id" :> 1) @@ ("quantity" :> 8) @@ ("version" :> 5)),
     Keyed("sales", "india", "u", 1,
           ("id" :> 1) @@ ("quantity" :> 8) @@ ("updated_at" :> InvalidTimestamp)),
     Change("sales", "india", "c", PlainAfter("sales", 2, 4, 2000000)),
     Change("sales", "india", "u", PlainAfter("sales", 1, 8, 4000000)),
     Change("sales", "india", "u", PlainAfter("sales", 1, 8, 1300999)),
     Change("sales", "india", "u",
            PlainAfter("sales", 1, 8, 4000000) @@ ("gst_rate" :> 18)),
     Raw("sales", "json", "null", 1),
     Delete("products", "india", 1)}

SinkDeliveries ==
    {[envelope |-> e, fault |-> NoFault] : e \in SinkEnvelopes}
      \cup {[envelope |-> Change("sales", "india", "u",
                                  PlainAfter("sales", 1, 8, 4000000)),
              fault |-> f] : f \in Faults}

----------------------------------------------------------------------------
(* handleMessage: decoding and the policy gate *)

(* JSON.parse of the key, then of the value, the tombstone test and the    *)
(* _sync_origin test, in the order handleMessage makes them.                *)
Decode(e) ==
    IF e.keyText = "garbage" \/ e.valueText = "garbage" THEN "parse_error"
    ELSE IF e.valueText = "null" THEN "tombstone"
    ELSE IF e.origin = NoOrigin THEN "no_sync_origin"
    ELSE "ok"

(* The catch blocks: resolveConflict's around its whole body, and           *)
(* handleMessage's around its whole body.                                   *)
CatchesNothing(error) == FALSE

CaughtInResolver(error) == error \in {"connect", "select", "mutation", "sql"}

CaughtInHandler(error) == error # "none"

TableName(topic) == CHOOSE t \in Tables : Topic(t) = topic

OperationDefaultingToCreate(e) == IF e.op = NoOp THEN "c" ELSE e.op

(* value.payload?.op || value.op || 'u' *)
Operation(e) == IF e.op = NoOp THEN "u" ELSE e.op

Destination(source) == IF source = "india" THEN "china" ELSE "india"

(* The chain of early returns of handleMessage; "accept" is the fall-through *)
(* to resolveConflict.                                                       *)
GateWithoutUsersBlock(tableName, source, operation) ==
    IF tableName = "products" /\ source = "india" /\ operation = "c"
        THEN "products_create_blocked"
    ELSE IF tableName = "sales" /\ source = "china" THEN "sales_from_china_blocked"
    ELSE IF Destination(source) # "china" THEN "not_for_china"
    ELSE "accept"

GateWithoutCreateBlock(tableName, source, operation) ==
    IF tableName = "users" THEN "users_blocked"
    ELSE IF tableName = "sales" /\ source = "china" THEN "sales_from_china_blocked"
    ELSE IF Destination(source) # "china" THEN "not_for_china"
    ELSE "accept"

GateWithoutOriginCheck(tableName, source, operation) ==
    IF tableName = "users" THEN "users_blocked"
    ELSE IF tableName = "products" /\ source = "india" /\ operation = "c"
        THEN "products_create_blocked"
    ELSE IF tableName = "sales" /\ source = "china" THEN "sales_from_china_blocked"
    ELSE "accept"

Gate(tableName, source, operation) ==
    IF tableName = "users" THEN "users_blocked"
    ELSE IF tableName = "products" /\ source = "india" /\ operation = "c"
        THEN "products_create_blocked"
    ELSE IF tableName = "sales" /\ source = "china" THEN "sales_from_china_blocked"
    ELSE IF Destination(source) # "china" THEN "not_for_china"
    ELSE "accept"

----------------------------------------------------------------------------
(* resolveConflict *)

(* The value object itself, as a row image: its top-level keys. *)
ValueItself(e) ==
    IF e.shape = "wrapped" THEN ("payload" :> "[object Object]")
    ELSE IF e.hasAfter
        THEN ("op" :> e.op) @@ ("after" :> "[object Object]")
                @@ ("_sync_origin" :> e.origin)
    ELSE e.after

NewDataWithoutPayloadLookup(e) ==
    IF e.hasAfter /\ e.shape = "flat" THEN e.after ELSE ValueItself(e)

(* value.payload?.after || value.after || value *)
NewData(e) == IF e.hasAfter THEN e.after ELSE ValueItself(e)

RecordId(e) ==
    IF e.keyId # NoId THEN e.keyId
    ELSE IF "id" \in DOMAIN NewData(e) THEN NewData(e)["id"] ELSE NoId

MissingRecordIdIgnored(recordId) == FALSE

(* if (!recordId) return *)
MissingRecordId(recordId) == recordId = NoId

(* new Date(...) of a timestamp column of newData, as milliseconds; NaN for *)
(* a missing or unparseable value.                                          *)
ToMillis(newData, col) ==
    IF col \notin DOMAIN newData THEN NaN
    ELSE LET ts == newData[col]
         IN  CASE ts.tag = "us" -> ts.n \div MicrosPerMs
               [] ts.tag = "iso" -> ts.n
               [] OTHER -> NaN

SourceTimestamp(newData) ==
    IF "updated_at" \in DOMAIN newData THEN ToMillis(newData, "updated_at")
    ELSE IF "created_at" \in DOMAIN newData THEN ToMillis(newData, "created_at")
    ELSE NaN

Abs(x) == IF x < 0 THEN 0 - x ELSE x

VersionOf(r) == IF "version" \in DOMAIN r THEN r["version"] ELSE 0

CompareTimestampsWithoutLoopCheck(existing, newData) ==
    LET tl == existing["updated_at"]
        ti == ToMillis(newData, "updated_at")
        known == ti # NaN
        timeDiff == Abs(ti - tl)
    IN  IF known /\ ti > tl
            THEN [apply |-> TRUE, reason |-> "newer_timestamp"]
        ELSE IF known /\ timeDiff < TieWindowMs
            THEN IF VersionOf(newData) > VersionOf(existing)
                    THEN [apply |-> TRUE, reason |-> "higher_version"]
                    ELSE [apply |-> FALSE, reason |-> "same_or_older_version"]
        ELSE [apply |-> FALSE, reason |-> "older_timestamp"]

CompareTimestampsApplyingOlder(existing, newData) ==
    LET tl == existing["updated_at"]
        ti == ToMillis(newData, "updated_at")
        known == ti # NaN
        timeDiff == Abs(ti - tl)
    IN  IF known /\ timeDiff < LoopWindowMs
            THEN [apply |-> FALSE, reason |-> "loop_prevention_rapid_update"]
        ELSE IF known /\ ti # tl
            THEN [apply |-> TRUE, reason |-> "newer_timestamp"]
        ELSE [apply |-> FALSE, reason |-> "older_timestamp"]

CompareTimestampsTieBreakFirst(existing, newData) ==
    LET tl == existing["updated_at"]
        ti == ToMillis(newData, "updated_at")
        known == ti # NaN
        timeDiff == Abs(ti - tl)
    IN  IF known /\ timeDiff < TieWindowMs /\ ti <= tl
            THEN IF VersionOf(newData) > VersionOf(existing)
                    THEN [apply |-> TRUE, reason |-> "higher_version"]
                    ELSE [apply |-> FALSE, reason |-> "same_or_older_version"]
        ELSE IF known /\ timeDiff < LoopWindowMs
            THEN [apply |-> FALSE, reason |-> "loop_prevention_rapid_update"]
        ELSE IF known /\ ti > tl
            THEN [apply |-> TRUE, reason |-> "newer_timestamp"]
        ELSE [apply |-> FALSE, reason |-> "older_timestamp"]

CompareTimestampsUnknownAsNewer(existing, newData) ==
    LET tl == existing["updated_at"]
        ti == ToMillis(newData, "updated_at")
        known == ti # NaN
        timeDiff == Abs(ti - tl)
    IN  IF known /\ timeDiff < LoopWindowMs
            THEN [apply |-> FALSE, reason |-> "loop_prevention_rapid_update"]
        ELSE IF ~known \/ ti > tl
            THEN [apply |-> TRUE, reason |-> "newer_timestamp"]
        ELSE [apply |-> FALSE, reason |-> "older_timestamp"]

(* The decision on an existing row and a non-delete change. *)
CompareTimestamps(existing, newData) ==
    LET tl == existing["updated_at"]
        ti == ToMillis(newData, "updated_at")
        known == ti # NaN
        timeDiff == Abs(ti - tl)
    IN  IF known /\ timeDiff < LoopWindowMs
            THEN [apply |-> FALSE, reason |-> "loop_prevention_rapid_update"]
        ELSE IF known /\ ti > tl
            THEN [apply |-> TRUE, reason |-> "newer_timestamp"]
        ELSE IF known /\ timeDiff < TieWindowMs
            THEN IF VersionOf(newData) > VersionOf(existing)
                    THEN [apply |-> TRUE, reason |-> "higher_version"]
                    ELSE [apply |-> FALSE, reason |-> "same_or_older_version"]
        ELSE [apply |-> FALSE, reason |-> "older_timestamp"]

DecideComparingDeletes(rows, recordId, operation, newData) ==
    IF recordId \notin DOMAIN rows
        THEN [apply |-> TRUE, reason |-> "new_record"]
    ELSE LET d == CompareTimestamps(rows[recordId], newData)
         IN  IF operation = "d" /\ d.apply
                THEN [apply |-> TRUE, reason |-> "delete_operation"]
                ELSE d

Decide(rows, recordId, operation, newData) ==
    IF recordId \notin DOMAIN rows
        THEN [apply |-> TRUE, reason |-> "new_record"]
    ELSE IF operation = "d"
        THEN [apply |-> TRUE, reason |-> "delete_operation"]
    ELSE CompareTimestamps(rows[recordId], newData)

StartsWithUnderscore(c) == SubSeq(c, 1, 1) = "_"

AllColumns(newData) == {c \in DOMAIN newData : ~StartsWithUnderscore(c)}

ColumnsUnfiltered(newData) == AllColumns(newData)

Columns(newData) == AllColumns(newData) \ PRIVATE_FIELDS

BoundValueKeepingUserIds(newData, col) ==
    IF col \in {"updated_at", "created_at"}
        THEN IF newData[col].tag = "us" THEN newData[col].n \div MicrosPerMs
             ELSE newData[col].n
    ELSE IF col \in NumberColumns /\ newData[col].tag = "us"
        THEN [tag |-> "date", n |-> newData[col].n \div MicrosPerMs]
    ELSE newData[col]

(* The value bound for a column of the INSERT: null for a user reference,  *)
(* a Date for any number above 1e11 whatever the column (an instant for the *)
(* timestamp columns), the payload's value otherwise.                       *)
BoundValue(newData, col) ==
    IF col \in FOREIGN_KEY_FIELDS THEN "NULL"
    ELSE IF col \in {"updated_at", "created_at"}
        THEN IF newData[col].tag = "us" THEN newData[col].n \div MicrosPerMs
             ELSE newData[col].n
    ELSE IF col \in NumberColumns /\ newData[col].tag = "us"
        THEN [tag |-> "date", n |-> newData[col].n \div MicrosPerMs]
    ELSE newData[col]

RemovedFields(newData) == AllColumns(newData) \cap PRIVATE_FIELDS

Values(newData) == [col \in Columns(newData) |-> BoundValue(newData, col)]

UpdateColumns(newData) == Columns(newData) \ {"sync_source", "updated_at"}

(* The statements the resolver issues. *)
SelectStmt(t, id) ==
    [kind |-> "select", table |-> t, id |-> id, columns |-> {},
     updateColumns |-> {}, values |-> NoVals]

DeleteStmt(t, id) ==
    [kind |-> "delete", table |-> t, id |-> id, columns |-> {},
     updateColumns |-> {}, values |-> NoVals]

UpsertStmt(t, id, newData) ==
    [kind |-> "upsert", table |-> t, id |-> id, columns |-> Columns(newData),
     updateColumns |-> UpdateColumns(newData), values |-> Values(newData)]

----------------------------------------------------------------------------
(* The local store's execution of the statements *)

(* INSERT ... ON CONFLICT (id) DO UPDATE SET <updateColumns>, updated_at =  *)
(* NOW(): fails (and changes nothing) when the column list is empty, names  *)
(* a column the table does not have, carries no id, or binds a Date to a    *)
(* number column.                                                           *)
UpsertFails(t, stmt) ==
    \/ stmt.columns = {}
    \/ ~(stmt.columns \subseteq Schema(t))
    \/ "id" \notin stmt.columns
    \/ \E c \in stmt.columns \cap NumberColumns : stmt.values[c].tag = "date"

InsertedRowStampedByServer(t, stmt, nowv) ==
    [c \in Schema(t) |->
        IF c = "updated_at" THEN nowv
        ELSE IF c \in stmt.columns THEN stmt.values[c] ELSE DefaultValue(c, nowv)]

InsertedRow(t, stmt, nowv) ==
    [c \in Schema(t) |->
        IF c \in stmt.columns THEN stmt.values[c] ELSE DefaultValue(c, nowv)]

UpdatedRowOverwritingSyncSource(t, old, stmt, nowv) ==
    [c \in Schema(t) |->
        IF c = "updated_at" THEN nowv
        ELSE IF c \in stmt.columns THEN stmt.values[c]
        ELSE old[c]]

UpdatedRow(t, old, stmt, nowv) ==
    [c \in Schema(t) |->
        IF c = "updated_at" THEN nowv
        ELSE IF c \in stmt.updateColumns THEN stmt.values[c]
        ELSE old[c]]

ExecUpsert(rows, t, stmt, nowv) ==
    IF UpsertFails(t, stmt) THEN rows
    ELSE LET rid == stmt.values["id"]
         IN  IF rid \in DOMAIN rows
                THEN [rows EXCEPT ![rid] = UpdatedRow(t, rows[rid], stmt, nowv)]
                ELSE [i \in DOMAIN rows \cup {rid} |->
                        IF i = rid THEN InsertedRow(t, stmt, nowv) ELSE rows[i]]

ExecDelete(rows, id) == [i \in DOMAIN rows \ {id} |-> rows[i]]

----------------------------------------------------------------------------
(* SyncMetrics.recordSync *)

Direction(source, destination) == source \o "-to-" \o destination

PushEventWithoutShift(ring, event) == Append(ring, event)

PushEventDroppingNewest(ring, event) ==
    IF Len(ring) >= maxEvents THEN ring ELSE Append(ring, event)

(* events.push(event), then events.shift() once past maxEvents. *)
PushEvent(ring, event) ==
    LET pushed == Append(ring, event)
    IN  IF Len(pushed) > maxEvents THEN Tail(pushed) ELSE pushed

RecordSyncMetrics(m, source, destination, tableName, recordId, latencyMs, nowv) ==
    LET direction == Direction(source, destination)
        event == [timestamp |-> nowv, source |-> source,
                  destination |-> destination, tableName |-> tableName,
                  recordId |-> recordId, latencyMs |-> latencyMs]
        old == IF direction \in DOMAIN m THEN m[direction] ELSE <<>>
    IN  [d \in DOMAIN m \cup {direction} |->
            IF d = direction THEN PushEvent(old, event) ELSE m[d]]

(* Map.set keeps the position of a key already present; the oldest key is  *)
(* dropped when the map grows past its limit.                              *)
RecordSyncTimesSet(rst, source, destination, tableName, recordId, latencyMs, nowv) ==
    LET key == <<tableName, recordId>>
        entry == [key |-> key, latencyMs |-> latencyMs, timestamp |-> nowv,
                  direction |-> Direction(source, destination)]
        present == \E k \in 1..Len(rst) : rst[k].key = key
        set == IF present
                 THEN [k \in 1..Len(rst) |-> IF rst[k].key = key THEN entry ELSE rst[k]]
                 ELSE Append(rst, entry)
    IN  IF Len(set) > MaxRecordSyncTimes THEN Tail(set) ELSE set

----------------------------------------------------------------------------
(* SyncMetrics.getStats and getRecordSyncTime *)

Reverse(seq) == [k \in 1 .. Len(seq) |-> seq[Len(seq) + 1 - k]]

(* events.slice(-n): a copy of the last n elements. *)
SliceLast(seq, n) ==
    IF Len(seq) <= n THEN seq ELSE SubSeq(seq, Len(seq) - n + 1, Len(seq))

(* The sum, the least and the greatest latency of events[lo .. hi], taken   *)
(* by halves: the three are associative, so the result is the one of the    *)
(* left-to-right pass of reduce, Math.min and Math.max.                     *)
RECURSIVE SumLatencyBetween(_, _, _)
SumLatencyBetween(events, lo, hi) ==
    IF lo = hi THEN events[lo].latencyMs
    ELSE LET mid == (lo + hi) \div 2
         IN  SumLatencyBetween(events, lo, mid) + SumLatencyBetween(events, mid + 1, hi)

RECURSIVE MinLatencyBetween(_, _, _)
MinLatencyBetween(events, lo, hi) ==
    IF lo = hi THEN events[lo].latencyMs
    ELSE LET mid == (lo + hi) \div 2
             left == MinLatencyBetween(events, lo, mid)
             right == MinLatencyBetween(events, mid + 1, hi)
         IN  IF left < right THEN left ELSE right

RECURSIVE MaxLatencyBetween(_, _, _)
MaxLatencyBetween(events, lo, hi) ==
    IF lo = hi THEN events[lo].latencyMs
    ELSE LET mid == (lo + hi) \div 2
             left == MaxLatencyBetween(events, lo, mid)
             right == MaxLatencyBetween(events, mid + 1, hi)
         IN  IF left > right THEN left ELSE right

(* events.reduce((sum, e) => sum + e.latencyMs, 0) *)
SumLatency(events) ==
    IF events = <<>> THEN 0 ELSE SumLatencyBetween(events, 1, Len(events))

(* Math.round(sum / n): the nearest integer, halves upwards. *)
Round(sum, n) == (2 * sum + n) \div (2 * n)

(* Math.min(...latencies) and Math.max(...latencies) of a ring with events. *)
MinLatency(events) == MinLatencyBetween(events, 1, Len(events))

MaxLatency(events) == MaxLatencyBetween(events, 1, Len(events))

(* events.slice(-10).reverse().map(...) *)
RecentSyncsOf(events) ==
    LET Summary(ev) == [table |-> ev.tableName, recordId |-> ev.recordId,
                        latencyMs |-> ev.latencyMs, timestamp |-> ev.timestamp]
        newestFirst == Reverse(SliceLast(events, RecentSyncs))
    IN  [k \in 1 .. Len(newestFirst) |-> Summary(newestFirst[k])]

(* The statistics getStats computes from the events of a direction. *)
Stats(events, nowv) ==
    IF Len(events) = 0
        THEN [totalSyncs |-> 0, avgLatencyMs |-> 0, minLatencyMs |-> 0,
              maxLatencyMs |-> 0, lastSyncTime |-> NullTime,
              lastSyncLatencyMs |-> 0, syncsLastMinute |-> 0,
              avgLastMinuteMs |-> 0, recentSyncs |-> <<>>]
    ELSE LET Recent(ev) == ev.timestamp > nowv - LastMinuteMs
             recentEvents == SelectSeq(events, Recent)
             lastSync == events[Len(events)]
         IN  [totalSyncs |-> Len(events),
              avgLatencyMs |-> Round(SumLatency(events), Len(events)),
              minLatencyMs |-> MinLatency(events),
              maxLatencyMs |-> MaxLatency(events),
              lastSyncTime |-> lastSync.timestamp,
              lastSyncLatencyMs |-> lastSync.latencyMs,
              syncsLastMinute |-> Len(recentEvents),
              avgLastMinuteMs |-> IF Len(recentEvents) > 0
                                    THEN Round(SumLatency(recentEvents), Len(recentEvents))
                                    ELSE 0,
              recentSyncs |-> RecentSyncsOf(events)]

EventsOf(m, direction) == IF direction \in DOMAIN m THEN m[direction] ELSE <<>>

(* getStats with events.reverse() applied to the ring itself. *)
GetStatsReversingInPlace(m, direction, nowv) ==
    [stats |-> Stats(EventsOf(m, direction), nowv),
     metrics |-> IF direction \in DOMAIN m
                    THEN [m EXCEPT ![direction] =
                            SubSeq(@, 1, Len(@) - RecentSyncs)
                                \o Reverse(SliceLast(@, RecentSyncs))]
                    ELSE m]

(* getStats(direction): what it returns, and this.metrics after the call    *)
(* (events.slice(-10) copies before reverse(), `|| []` adds no key).        *)
GetStats(m, direction, nowv) ==
    [stats |-> Stats(EventsOf(m, direction), nowv), metrics |-> m]

NoSyncData == [found |-> FALSE]

(* getRecordSyncTime(tableName, recordId): null, or the entry's data with   *)
(* its age in seconds.                                                      *)
GetRecordSyncTime(rst, tableName, recordId, nowv) ==
    LET key == <<tableName, recordId>>
        found == {k \in 1 .. Len(rst) : rst[k].key = key}
    IN  IF found = {} THEN NoSyncData
        ELSE LET syncData == rst[CHOOSE k \in found : TRUE]
             IN  [found |-> TRUE, latencyMs |-> syncData.latencyMs,
                  timestamp |-> syncData.timestamp,
                  direction |-> syncData.direction,
                  timeAgo |-> (nowv - syncData.timestamp) \div 1000]

----------------------------------------------------------------------------
(* resolveConflict as a whole: the store after it, the statements it issued *)
(* in order, its reason, and the sync event it recorded (if any).           *)

(* syncEndTime - sourceTimestamp; without a source timestamp the time the   *)
(* handler itself took, which is 0 when the handler is one step.            *)
Latency(newData, nowv) ==
    LET sourceTimestamp == SourceTimestamp(newData)
    IN  IF sourceTimestamp # NaN THEN nowv - sourceTimestamp ELSE 0

NoConnection == [connected |-> FALSE, error |-> "connect"]

Connection == [connected |-> TRUE, error |-> "none"]

EnsureConnectingEveryTime(connected, fault) ==
    IF fault = "connect" THEN NoConnection ELSE Connection

(* ensureProducerConnected(): producer.connect() is awaited only while      *)
(* producerConnected is false, and the flag is set once connect returned.   *)
EnsureProducerConnected(connected, fault) ==
    IF ~connected
        THEN IF fault = "connect" THEN NoConnection ELSE Connection
        ELSE Connection

RecordsSyncOfEveryMutation(kind, failed) == ~failed

(* syncMetrics.recordSync is called in the insert/update branch only, after *)
(* the awaited INSERT returned.                                             *)
RecordsSync(kind, failed) == kind = "upsert" /\ ~failed

(* An outcome of resolveConflict that changed nothing. *)
Unchanged(dbv, connected, stmts, reason, error) ==
    [db |-> dbv, connected |-> connected, stmts |-> stmts, reason |-> reason,
     error |-> error, stripped |-> {}, recorded |-> FALSE, latencyMs |-> 0]

ResolveConflict(e, tableName, dbv, nowv, connected, fault) ==
    LET newData == NewData(e)
        operation == Operation(e)
        recordId == RecordId(e)
        rows == dbv[tableName]
        d == Decide(rows, recordId, operation, newData)
        select == SelectStmt(tableName, recordId)
        upsert == UpsertStmt(tableName, recordId, newData)
        delete == DeleteStmt(tableName, recordId)
        producer == EnsureProducerConnected(connected, fault)
    IN  IF producer.error # "none"
            THEN Unchanged(dbv, producer.connected, <<>>, "none", producer.error)
        ELSE IF MissingRecordId(recordId)
            THEN Unchanged(dbv, TRUE, <<>>, "no_record_id", "none")
        ELSE IF fault = "select"
            THEN Unchanged(dbv, TRUE, <<select>>, "none", "select")
        ELSE IF ~d.apply
            THEN Unchanged(dbv, TRUE, <<select>>, d.reason, "none")
        ELSE IF operation = "d"
            THEN IF fault = "mutation"
                    THEN Unchanged(dbv, TRUE, <<select, delete>>, d.reason, "mutation")
                    ELSE [db |-> [dbv EXCEPT ![tableName] = ExecDelete(rows, recordId)],
                          connected |-> TRUE, stmts |-> <<select, delete>>,
                          reason |-> d.reason, error |-> "none", stripped |-> {},
                          recorded |-> RecordsSync("delete", FALSE),
                          latencyMs |-> 0]
        ELSE IF fault = "mutation"
            THEN [Unchanged(dbv, TRUE, <<select, upsert>>, d.reason, "mutation")
                    EXCEPT !.stripped = RemovedFields(newData)]
        ELSE [db |-> [dbv EXCEPT ![tableName] = ExecUpsert(rows, tableName, upsert, nowv)],
              connected |-> TRUE, stmts |-> <<select, upsert>>,
              reason |-> d.reason,
              error |-> IF UpsertFails(tableName, upsert) THEN "sql" ELSE "none",
              stripped |-> RemovedFields(newData),
              recorded |-> RecordsSync("upsert", UpsertFails(tableName, upsert)),
              latencyMs |-> Latency(newData, nowv)]

(* The store after handleMessage has handled e with nothing failing. *)
HandledDb(e, dbv, nowv) ==
    LET tableName == TableName(e.topic)
    IN  IF Decode(e) = "ok" /\ Gate(tableName, e.origin, Operation(e)) = "accept"
            THEN ResolveConflict(e, tableName, dbv, nowv, TRUE, NoFault).db
            ELSE dbv

----------------------------------------------------------------------------
(* The state machine *)

InitialDb ==
    [t \in Tables |->
        CASE t = "users" ->
                (1 :> [id |-> 1, username |-> "li", email |-> "li@x", updated_at |-> 1000])
          [] t = "products" ->
                (1 :> [id |-> 1, stock_quantity |-> 5, created_by_user_id |-> "local_7",
                       sync_source |-> "china", version |-> 1, updated_at |-> 1000])
          [] t = "sales" ->
                (1 :> [id |-> 1, quantity |-> 3,
                       total_amount |-> [tag |-> "num", n |-> 0],
                       salesperson_user_id |-> "NULL",
                       sync_source |-> "india", version |-> 1, updated_at |-> 1000])]

NoMessage ==
    [table |-> "none", source |-> "none", operation |-> "none", recordId |-> NoId,
     tinc |-> NaN, version |-> 0, op |-> NoOp, shape |-> "none", keyText |-> "none", valueText |-> "none",
     image |-> "none",
     fault |-> NoFault, decode |-> "none", gate |-> "none", reason |-> "none",
     error |-> "none", thrown |-> FALSE, failed |-> 0, stmts |-> <<>>,
     stripped |-> {}, recorded |-> FALSE]

(* The process before startServer() runs: signal handlers are registered,   *)
(* nothing is connected.  phase is startServer's position.                  *)
NotStarted ==
    [phase |-> "starting", dbTest |-> "none", consumer |-> "not_started",
     listening |-> FALSE, poolEnded |-> FALSE, signal |-> "none", exitCode |-> 0]

NoEnvelope == Raw("users", "null", "null", NoId)

(* Nothing has been read from the metrics store. *)
NoReply == [call |-> "none"]

(* No handleMessage call in progress; acked counts the offsets resolved. *)
Idle == [pc |-> "idle", envelope |-> NoEnvelope, pending |-> <<>>,
         outcome |-> "none", acked |-> 0]

Init ==
    /\ region \in Regions
    /\ db = InitialDb
    /\ metrics = [d \in {"china-to-india", "india-to-china"} |-> <<>>]
    /\ recordSyncTimes = <<>>
    /\ now = 1500
    /\ handled = 0
    /\ calls = [d \in {"china-to-india", "india-to-china"} |-> 0]
    /\ producerConnected = FALSE
    /\ proc = NotStarted
    /\ handler = Idle
    /\ last = NoMessage
    /\ reply = NoReply

(* What the value holds where the post-image is looked for. *)
Image(e) ==
    IF e.valueText # "json" THEN "none"
    ELSE IF ~e.hasAfter THEN "absent"
    ELSE IF DOMAIN e.after = {} THEN "empty"
    ELSE "present"

(* An error leaves handleMessage only if neither catch block takes it. *)
Thrown(error, inResolver) ==
    /\ error # "none"
    /\ ~(inResolver /\ CaughtInResolver(error))
    /\ ~CaughtInHandler(error)

Failure(error) == IF error = "none" THEN 0 ELSE 1

(* eachMessage -> handleMessage(topic, message), run to completion; fault   *)
(* is the failure its calls meet.  A handler that throws stops the consumer. *)
HandleMessage(e, fault) ==
    LET tableName == TableName(e.topic)
        source == e.origin
        destination == Destination(source)
        operation == Operation(e)
        decode == Decode(e)
        gate == Gate(tableName, source, operation)
        r == ResolveConflict(e, tableName, db, now, producerConnected, fault)
        seen == [table |-> tableName, source |-> source, operation |-> operation,
                 recordId |-> RecordId(e),
                 tinc |-> ToMillis(NewData(e), "updated_at"),
                 version |-> VersionOf(NewData(e)), op |-> e.op,
                 shape |-> e.shape, keyText |-> e.keyText, valueText |-> e.valueText,
                 image |-> Image(e), fault |-> fault, decode |-> decode]
        skipped == [reason |-> "none", stmts |-> <<>>, stripped |-> {},
                    recorded |-> FALSE]
    IN  /\ handled < MaxMsgs
        /\ ~last.thrown
        /\ handled' = handled + 1
        /\ UNCHANGED <<reply, region, now, proc, handler>>
        /\ IF decode # "ok"
             THEN /\ UNCHANGED <<db, metrics, recordSyncTimes, calls, producerConnected>>
                  /\ LET error == IF decode = "parse_error" THEN "parse" ELSE "none"
                     IN  last' = seen @@ skipped @@
                                 [gate |-> "none", error |-> error,
                                  thrown |-> Thrown(error, FALSE),
                                  failed |-> last.failed + Failure(error)]
           ELSE IF gate # "accept"
             THEN /\ UNCHANGED <<db, metrics, recordSyncTimes, calls, producerConnected>>
                  /\ last' = seen @@ skipped @@
                              [gate |-> gate, error |-> "none", thrown |-> FALSE,
                               failed |-> last.failed]
             ELSE /\ db' = r.db
                  /\ producerConnected' = r.connected
                  /\ IF r.recorded
                       THEN /\ metrics' = RecordSyncMetrics(metrics, source,
                                            destination, tableName, seen.recordId,
                                            r.latencyMs, now)
                            /\ recordSyncTimes' = RecordSyncTimesSet(recordSyncTimes,
                                            source, destination, tableName,
                                            seen.recordId, r.latencyMs, now)
                            /\ calls' = [calls EXCEPT
                                            ![Direction(source, destination)] = @ + 1]
                       ELSE UNCHANGED <<metrics, recordSyncTimes, calls>>
                  /\ last' = seen @@ [gate |-> gate, reason |-> r.reason,
                                      error |-> r.error,
                                      thrown |-> Thrown(r.error, TRUE),
                                      failed |-> last.failed + Failure(r.error),
                                      stmts |-> r.stmts, stripped |-> r.stripped,
                                      recorded |-> r.recorded]

(* Time passes between messages. *)
Tick ==
    /\ now + 2000 <= MaxNow
    /\ now' = now + 2000
    /\ UNCHANGED <<reply, region, db, metrics, recordSyncTimes, handled, calls,
                   producerConnected, proc, handler, last>>

Next ==
    \/ \E e \in Envelopes : HandleMessage(e, NoFault)
    \/ Tick

Spec == Init /\ [][Next]_vars

(* The consumer fed malformed and boundary messages, with calls that fail. *)
NextEdge ==
    \/ \E d \in Deliveries : HandleMessage(d.envelope, d.fault)
    \/ Tick

SpecEdge == Init /\ [][NextEdge]_vars

(* The consumer fed the changes that exercise the resolver. *)
NextResolver ==
    \/ \E e \in ResolverEnvelopes : HandleMessage(e, NoFault)
    \/ Tick

SpecResolver == Init /\ [][NextResolver]_vars

(* The consumer fed the messages that follow each outcome to the sink. *)
NextSink ==
    \/ \E d \in SinkDeliveries : HandleMessage(d.envelope, d.fault)
    \/ Tick

SpecSink == Init /\ [][NextSink]_vars

----------------------------------------------------------------------------
(* SyncMetrics on its own: a long run of recordSync calls *)

TotalCalls == calls["china-to-india"] + calls["india-to-china"]

(* The arguments call number n may carry.  The first calls are free; the    *)
(* later ones follow a fixed workload: every fourth call is for the reverse *)
(* direction and every seventh names a record synced before.                *)
WorkloadSource(n) == IF n % 4 = 0 THEN "china" ELSE "india"

CallArguments(n) ==
    IF n <= MaxFreeCalls
        THEN {[source |-> src, tableName |-> "sales", recordId |-> i] :
                 src \in Regions, i \in Ids}
        ELSE {[source |-> WorkloadSource(n),
               tableName |-> IF n % 4 = 0 THEN "products" ELSE "sales",
               recordId |-> IF n % 7 = 0 THEN 1 ELSE n]}

(* syncMetrics.recordSync(source, destination, tableName, recordId, latencyMs) *)
RecordSync(a, latencyMs) ==
    LET destination == Destination(a.source)
    IN  /\ TotalCalls < MaxCalls
        /\ metrics' = RecordSyncMetrics(metrics, a.source, destination,
                            a.tableName, a.recordId, latencyMs, now)
        /\ recordSyncTimes' = RecordSyncTimesSet(recordSyncTimes, a.source,
                            destination, a.tableName, a.recordId, latencyMs, now)
        /\ calls' = [calls EXCEPT ![Direction(a.source, destination)] = @ + 1]
        /\ UNCHANGED <<reply, region, db, now, handled, producerConnected, proc,
                       handler, last>>

(* Each call carries its ordinal as latency, which tells the events apart. *)
NextMetrics == \E a \in CallArguments(TotalCalls + 1) : RecordSync(a, TotalCalls + 1)

SpecMetrics == Init /\ [][NextMetrics]_vars

(* The directions and records the reads ask for: the two directions and one *)
(* that never syncs; the record synced again and again, one synced once    *)
(* and one never synced.                                                    *)
StatDirections == {"china-to-india", "india-to-china", "china-to-china"}

StatRecords == {<<"sales", 1>>, <<"sales", 10>>, <<"users", 1>>}

(* GET /api/metrics -> syncMetrics.getStats(direction) *)
GetStatsCall(direction) ==
    LET r == GetStats(metrics, direction, now)
    IN  /\ reply' = [call |-> "getStats", direction |-> direction, stats |-> r.stats]
        /\ metrics' = r.metrics
        /\ UNCHANGED <<region, db, recordSyncTimes, now, handled, calls,
                       producerConnected, proc, handler, last>>

(* syncMetrics.getRecordSyncTime(tableName, recordId) *)
GetRecordSyncTimeCall(key) ==
    /\ reply' = [call |-> "getRecordSyncTime", key |-> key,
                 data |-> GetRecordSyncTime(recordSyncTimes, key[1], key[2], now)]
    /\ UNCHANGED <<region, db, metrics, recordSyncTimes, now, handled, calls,
                   producerConnected, proc, handler, last>>

(* The store is read once every PollEvery calls of recordSync. *)
Polling == TotalCalls % PollEvery = 0

NextStats ==
    \/ /\ TotalCalls < MaxStatCalls
       /\ \E a \in CallArguments(TotalCalls + 1) : RecordSync(a, TotalCalls + 1)
    \/ Polling /\ \E direction \in StatDirections : GetStatsCall(direction)
    \/ Polling /\ \E key \in StatRecords : GetRecordSyncTimeCall(key)

SpecStats == Init /\ [][NextStats]_vars

----------------------------------------------------------------------------
(* The process: startServer, the signal handlers, and the consumer running  *)
(* handleMessage one await at a time                                        *)

ProcessEnvelopes ==
    FaultProbes \cup {Raw("sales", "json", "null", 1), Delete("users", "india", 1)}

Running == proc.phase # "exited"

Exit(p, code) == [p EXCEPT !.phase = "exited", !.exitCode = code]

(* catch of the initKafkaConsumers call in startServer. *)
OnKafkaErrorExit(p) == Exit([p EXCEPT !.consumer = "failed"], 1)

OnKafkaError(p) == [p EXCEPT !.consumer = "failed", !.phase = "kafka_done"]

(* const dbTest = await testConnection(); if (!dbTest.success) process.exit(1) *)
TestConnection(success) ==
    /\ Running /\ proc.phase = "starting"
    /\ proc' = IF success
                 THEN [proc EXCEPT !.dbTest = "ok", !.phase = "db_ok"]
                 ELSE Exit([proc EXCEPT !.dbTest = "failed"], 1)
    /\ UNCHANGED <<reply, region, db, metrics, recordSyncTimes, now, handled, calls,
                   producerConnected, handler, last>>

(* await initKafkaConsumers(): connect, subscribe, run; it rethrows what    *)
(* fails and startServer catches it.                                        *)
InitKafkaConsumers(success) ==
    /\ Running /\ proc.phase = "db_ok"
    /\ proc' = IF success
                 THEN [proc EXCEPT !.consumer = "running", !.phase = "kafka_done"]
                 ELSE OnKafkaError(proc)
    /\ UNCHANGED <<reply, region, db, metrics, recordSyncTimes, now, handled, calls,
                   producerConnected, handler, last>>

(* app.listen(config.port) *)
Listen ==
    /\ Running /\ proc.phase = "kafka_done"
    /\ proc' = [proc EXCEPT !.listening = TRUE, !.phase = "serving"]
    /\ UNCHANGED <<reply, region, db, metrics, recordSyncTimes, now, handled, calls,
                   producerConnected, handler, last>>

(* process.on('SIGTERM' / 'SIGINT'): log, process.exit(0). *)
Signal(sig) ==
    /\ Running
    /\ proc' = Exit([proc EXCEPT !.signal = sig], 0)
    /\ UNCHANGED <<reply, region, db, metrics, recordSyncTimes, now, handled, calls,
                   producerConnected, handler, last>>

(* Which of the calls on the way to the store are awaited: eachMessage      *)
(* awaits handleMessage, handleMessage awaits resolveConflict,              *)
(* resolveConflict awaits destPool.query.                                   *)
AwaitedButQuery(call) == call \in {"handleMessage", "resolveConflict"}

Awaited(call) == call \in {"handleMessage", "resolveConflict", "query"}

(* The consumer hands the next message of the partition to eachMessage,     *)
(* once the previous call has returned and its offset is resolved; the      *)
(* handler runs up to its first await in the resolver.                      *)
Begin(e) ==
    LET tableName == TableName(e.topic)
        accepted == /\ Decode(e) = "ok"
                    /\ Gate(tableName, e.origin, Operation(e)) = "accept"
    IN  /\ Running /\ proc.consumer = "running"
        /\ handler.pc = "idle"
        /\ handled < MaxMsgs
        /\ handled' = handled + 1
        /\ handler' = [handler EXCEPT
                          !.envelope = e,
                          !.pc = IF accepted THEN "resolving" ELSE "returned",
                          !.outcome = IF accepted THEN "none" ELSE "skipped"]
        /\ UNCHANGED <<reply, region, db, metrics, recordSyncTimes, now, calls,
                       producerConnected, proc, last>>

(* resolveConflict up to the mutation: connect, SELECT, decide, and issue   *)
(* the DELETE or the INSERT.                                                *)
Resolve ==
    LET e == handler.envelope
        r == ResolveConflict(e, TableName(e.topic), db, now, TRUE, NoFault)
        allAwaited == \A call \in {"handleMessage", "resolveConflict", "query"} :
                          Awaited(call)
    IN  /\ Running /\ handler.pc = "resolving"
        /\ producerConnected' = TRUE
        /\ handler' = IF Len(r.stmts) < 2
                         THEN [handler EXCEPT !.pc = "returned", !.outcome = "skipped"]
                         ELSE [handler EXCEPT
                                 !.pending = <<r.stmts[2]>>,
                                 !.outcome = "issued",
                                 !.pc = IF allAwaited THEN "awaiting_query"
                                        ELSE "returned"]
        /\ UNCHANGED <<reply, region, db, metrics, recordSyncTimes, now, handled, calls,
                       proc, last>>

(* The store executes the pending statement; a handler awaiting it records  *)
(* the sync event of an INSERT and returns.                                 *)
CompleteQuery ==
    LET e == handler.envelope
        stmt == handler.pending[1]
        t == stmt.table
        source == e.origin
        destination == Destination(source)
        ok == stmt.kind = "delete" \/ ~UpsertFails(t, stmt)
        records == stmt.kind = "upsert" /\ ok /\ handler.pc = "awaiting_query"
    IN  /\ Running /\ handler.pending # <<>>
        /\ db' = [db EXCEPT ![t] = IF stmt.kind = "delete"
                                     THEN ExecDelete(db[t], stmt.id)
                                     ELSE ExecUpsert(db[t], t, stmt, now)]
        /\ handler' = [handler EXCEPT
                          !.pending = <<>>,
                          !.outcome = IF ok THEN "written" ELSE "failed",
                          !.pc = IF @ = "awaiting_query" THEN "returned" ELSE @]
        /\ IF records
             THEN /\ metrics' = RecordSyncMetrics(metrics, source, destination, t,
                                    stmt.id, Latency(NewData(e), now), now)
                  /\ recordSyncTimes' = RecordSyncTimesSet(recordSyncTimes, source,
                                    destination, t, stmt.id,
                                    Latency(NewData(e), now), now)
                  /\ calls' = [calls EXCEPT ![Direction(source, destination)] = @ + 1]
             ELSE UNCHANGED <<metrics, recordSyncTimes, calls>>
        /\ UNCHANGED <<reply, region, now, handled, producerConnected, proc, last>>

(* eachMessage has returned: the consumer resolves the message's offset. *)
Ack ==
    /\ Running /\ handler.pc = "returned"
    /\ handler' = [handler EXCEPT !.pc = "idle", !.acked = @ + 1]
    /\ UNCHANGED <<reply, region, db, metrics, recordSyncTimes, now, handled, calls,
                   producerConnected, proc, last>>

NextProcess ==
    \/ \E success \in BOOLEAN : TestConnection(success)
    \/ \E success \in BOOLEAN : InitKafkaConsumers(success)
    \/ Listen
    \/ \E sig \in {"SIGTERM", "SIGINT"} : Signal(sig)
    \/ \E e \in ProcessEnvelopes : Begin(e)
    \/ Resolve
    \/ CompleteQuery
    \/ Ack

SpecProcess == Init /\ [][NextProcess]_vars

----------------------------------------------------------------------------
(* The REST API writing the store the consumer writes *)

(* The columns PUT /api/products/:id sets from the request body, each with  *)
(* COALESCE($n, column).                                                    *)
PutColumns == {"product_name", "description", "price", "stock_quantity", "category"}

(* A body that names no column, and one that sets the stock. *)
PutBodies == {<<>>, [stock_quantity |-> 9]}

(* UPDATE products SET c = COALESCE($n, c), ..., updated_at = NOW()         *)
(* WHERE id = $6: a column the body leaves out keeps its value.             *)
UpdatedProduct(row, body, nowv) ==
    [c \in DOMAIN row |->
        IF c = "updated_at" THEN nowv
        ELSE IF c \in PutColumns /\ c \in DOMAIN body THEN body[c]
        ELSE row[c]]

(* PUT /api/products/:id of a request that passed authenticateJWT and       *)
(* requireRole: one UPDATE; an id without a row changes nothing (404).      *)
PutProduct(id, body) ==
    /\ Running /\ proc.listening
    /\ db' = IF id \in DOMAIN db["products"]
                THEN [db EXCEPT !["products"][id] = UpdatedProduct(@, body, now)]
                ELSE db
    /\ UNCHANGED <<reply, region, metrics, recordSyncTimes, now, handled, calls,
                   producerConnected, proc, handler, last>>

(* Updates of products row 1 stamped 2000 ms and 4000 ms, and of row 2. *)
ApiEnvelopes ==
    {Change("products", "india", "u", PlainAfter("products", 1, 7, 2000000)),
     Change("products", "india", "u", PlainAfter("products", 1, 8, 4000000)),
     Change("products", "india", "u", PlainAfter("products", 2, 7, 2000000))}

NextApi ==
    \/ \E success \in BOOLEAN : TestConnection(success)
    \/ \E success \in BOOLEAN : InitKafkaConsumers(success)
    \/ Listen
    \/ \E e \in ApiEnvelopes : Begin(e)
    \/ Resolve
    \/ CompleteQuery
    \/ Ack
    \/ \E id \in Ids, body \in PutBodies : PutProduct(id, body)
    \/ Tick

SpecApi == Init /\ [][NextApi]_vars

----------------------------------------------------------------------------
(* Properties *)

(* A step that handles one message. *)
Handles == handled' = handled + 1

Peer(r) == IF r = "india" THEN "china" ELSE "india"

Statements(l) == {l.stmts[k] : k \in 1..Len(l.stmts)}

Mutating(stmt) == stmt.kind \in {"upsert", "delete"}

(* C1: handling a message on topic sync.users, whatever its origin, op and  *)
(* payload, issues no statement on the users table and leaves the users     *)
(* table as it was.                                                        *)
C1_UsersImmutable ==
    [][(Handles /\ last'.table = "users") =>
          /\ db'["users"] = db["users"]
          /\ \A stmt \in Statements(last') : stmt.table # "users"]_vars

(* Two sync.users messages were handled, the latest a create from India. *)
C1_Witness ==
    /\ handled = 2
    /\ last.table = "users" /\ last.source = "india" /\ last.operation = "c"
    /\ db["users"] = InitialDb["users"]

(* C2: no statement the sink writer issues names a private field in its     *)
(* column list, its bound values or its ON CONFLICT update set, and no row  *)
(* of the store holds a private value taken from a payload.                 *)
C2_NoPrivateColumns ==
    /\ \A stmt \in Statements(last) :
          /\ stmt.columns \cap PRIVATE_FIELDS = {}
          /\ stmt.updateColumns \cap PRIVATE_FIELDS = {}
          /\ DOMAIN stmt.values \cap PRIVATE_FIELDS = {}
    /\ \A t \in Tables : \A i \in DOMAIN db[t] :
          \A c \in Schema(t) \cap PRIVATE_FIELDS :
              db[t][i][c] \notin {"peer_pii", "bob", "b@x"}

(* An upsert went through whose payload carried all the private fields. *)
C2_Witness ==
    /\ last.recorded
    /\ last.stripped = PRIVATE_FIELDS
    /\ \E stmt \in Statements(last) : stmt.kind = "upsert"

(* C3: every upsert binds null for created_by_user_id and                   *)
(* salesperson_user_id when the payload carries them, the row it wrote      *)
(* holds null there, and no row ever holds a user id taken from a payload.  *)
C3_ForeignKeysNulled ==
    /\ \A stmt \in Statements(last) :
          \A c \in stmt.columns \cap FOREIGN_KEY_FIELDS : stmt.values[c] = "NULL"
    /\ last.recorded =>
          \A stmt \in Statements(last) :
              \A c \in stmt.columns \cap FOREIGN_KEY_FIELDS :
                  /\ last.recordId \in DOMAIN db[last.table]
                  /\ db[last.table][last.recordId][c] = "NULL"
    /\ \A t \in Tables : \A i \in DOMAIN db[t] :
          \A c \in Schema(t) \cap FOREIGN_KEY_FIELDS : db[t][i][c] # "peer_42"

(* An update of product 1, whose creator was a local user, carried a peer   *)
(* user id and left null.                                                   *)
C3_Witness ==
    /\ last.recorded /\ last.table = "products" /\ last.recordId = 1
    /\ \E stmt \in Statements(last) : "created_by_user_id" \in stmt.columns
    /\ db["products"][1]["created_by_user_id"] = "NULL"

(* C4: handling a message never decreases the updated_at of a row that is   *)
(* there before and after it.                                               *)
C4_UpdatedAtMonotone ==
    [][Handles =>
          \A t \in Tables : \A i \in DOMAIN db[t] \cap DOMAIN db'[t] :
              db'[t][i]["updated_at"] >= db[t][i]["updated_at"]]_vars

(* The policy matrix for local region l: users never; nothing that          *)
(* originated in l itself; from the peer, everything but product creation.  *)
PolicyMatrix(t, source, op, l) ==
    IF t = "users" THEN "REJECT"
    ELSE IF source = l THEN "REJECT"
    ELSE IF t = "products" /\ op = "c" THEN "REJECT"
    ELSE "ACCEPT"

(* C5: with local region china, the gate's decision on every message is the *)
(* policy matrix's for (table, source, op), whatever the payload and the    *)
(* store hold; resolveConflict runs exactly for the accepted ones.          *)
C5_GateIsPolicyMatrix ==
    (region = "china" /\ last.gate # "none") =>
        /\ (last.gate = "accept") <=>
              (PolicyMatrix(last.table, last.source, last.operation, "china") = "ACCEPT")
        /\ (last.gate = "accept") <=>
              (last.reason # "none" \/ last.error \in {"connect", "select"})

(* A product delete from India was accepted at the China region. *)
C5_Witness ==
    /\ region = "china" /\ last.gate = "accept"
    /\ last.table = "products" /\ last.source = "india" /\ last.operation = "d"
    /\ last.reason = "delete_operation"

(* C6: a message whose origin is the local region, and any message the gate *)
(* rejects, issues no statement and changes neither the store nor the       *)
(* metrics.                                                                 *)
C6_RejectedIsNoOp ==
    [][(Handles /\ (last'.source = region \/ last'.gate # "accept")) =>
          /\ last'.stmts = <<>>
          /\ db' = db
          /\ metrics' = metrics
          /\ recordSyncTimes' = recordSyncTimes]_vars

(* C7: a create on products that originated in the peer region issues no    *)
(* statement and leaves the products table as it was.                       *)
C7_NoPeerProductCreate ==
    [][(Handles /\ last'.table = "products" /\ last'.operation = "c"
          /\ last'.source = Peer(region)) =>
          /\ db'["products"] = db["products"]
          /\ last'.stmts = <<>>]_vars

(* A peer create of product 2, which the store does not hold, was handled. *)
C7_Witness ==
    /\ last.table = "products" /\ last.operation = "c"
    /\ last.source = Peer(region)
    /\ last.recordId = 2 /\ 2 \notin DOMAIN db["products"]

(* C8: the gate decides by the configured region: the policy matrix for     *)
(* local region = region.                                                   *)
C8_GateFollowsRegion ==
    (last.gate # "none") =>
        ((last.gate = "accept") <=>
            (PolicyMatrix(last.table, last.source, last.operation, region) = "ACCEPT"))

(* C9: a non-delete change on an existing row whose incoming updated_at is  *)
(* within 1000 ms of the row's changes neither the store nor the metrics    *)
(* and issues no mutating statement.                                        *)
C9_LoopSuppression ==
    [][(/\ Handles
        /\ last'.operation # "d"
        /\ last'.recordId \in DOMAIN db[last'.table]
        /\ last'.tinc # NaN
        /\ Abs(last'.tinc - db[last'.table][last'.recordId]["updated_at"]) < 1000) =>
          /\ db' = db
          /\ metrics' = metrics
          /\ recordSyncTimes' = recordSyncTimes
          /\ \A stmt \in Statements(last') : ~Mutating(stmt)]_vars

(* An accepted update arrived 300 ms ahead of the row and was suppressed. *)
C9_Witness ==
    /\ last.gate = "accept"
    /\ last.reason = "loop_prevention_rapid_update"
    /\ last.recordId \in DOMAIN db[last.table]
    /\ last.tinc - db[last.table][last.recordId]["updated_at"] = 300

(* Accepted non-delete changes. *)
AcceptedChanges ==
    {e \in Envelopes :
        /\ Operation(e) # "d"
        /\ Gate(TableName(e.topic), e.origin, Operation(e)) = "accept"}

(* C10: two accepted non-delete changes of one row at least 1000 ms apart   *)
(* (here: two images carrying the same columns) leave the same row in       *)
(* either order, and that row holds the later change's columns.             *)
C10_LwwConvergence ==
    \A e1, e2 \in AcceptedChanges :
        (/\ e1.topic = e2.topic
         /\ DOMAIN e1.after = DOMAIN e2.after
         /\ RecordId(e1) = RecordId(e2)
         /\ ToMillis(e2.after, "updated_at") - ToMillis(e1.after, "updated_at") >= 1000) =>
            LET t == TableName(e1.topic)
                i == RecordId(e1)
                d12 == HandledDb(e2, HandledDb(e1, db, now), now)
                d21 == HandledDb(e1, HandledDb(e2, db, now), now)
            IN  /\ i \in DOMAIN d12[t] /\ i \in DOMAIN d21[t]
                /\ d12[t][i] = d21[t][i]
                /\ \A c \in UpdateColumns(e2.after) : d12[t][i][c] = Values(e2.after)[c]

(* The clock readings at which a message delivered after one handled at     *)
(* reading n can be handled.                                                *)
LaterClocks(n) == {n} \cup (IF n + 2000 <= MaxNow THEN {n + 2000} ELSE {})

(* C11: handling an envelope a second time, right after the first, leaves   *)
(* every table as the first handling left it, updated_at included.          *)
C11_Idempotence ==
    \A e \in Envelopes : \A later \in LaterClocks(now) :
        LET once == HandledDb(e, db, now)
        IN  HandledDb(e, once, later) = once

(* C12: two accepted envelopes for one (table, id), deletes included, leave *)
(* the same state for that key whichever is handled first.                  *)
AcceptedEnvelopes ==
    {e \in Envelopes : Gate(TableName(e.topic), e.origin, Operation(e)) = "accept"}

KeyState(dbv, t, i) == IF i \in DOMAIN dbv[t] THEN <<dbv[t][i]>> ELSE <<>>

C12_OrderIndependence ==
    \A e1, e2 \in AcceptedEnvelopes :
        (e1.topic = e2.topic /\ RecordId(e1) = RecordId(e2)) =>
            LET t == TableName(e1.topic)
                i == RecordId(e1)
                d12 == HandledDb(e2, HandledDb(e1, db, now), now)
                d21 == HandledDb(e1, HandledDb(e2, db, now), now)
            IN  KeyState(d12, t, i) = KeyState(d21, t, i)

Min(a, b) == IF a < b THEN a ELSE b

(* C13: between calls of recordSync, the ring of each direction holds       *)
(* min(N, 100) events, N being the calls made for that direction, and the   *)
(* per-record map holds at most 1000 entries.                               *)
C13_MetricsBounded ==
    /\ \A d \in DOMAIN metrics : Len(metrics[d]) = Min(calls[d], 100)
    /\ Len(recordSyncTimes) <= 1000

(* Both rings have wrapped and the map has dropped its oldest entries. *)
C13_Witness ==
    /\ \A d \in DOMAIN metrics : calls[d] > 100 /\ Len(metrics[d]) = 100
    /\ Len(recordSyncTimes) = 1000
    /\ recordSyncTimes[1].key # <<"sales", 1>>

Count(stmts, kinds) == Cardinality({k \in 1..Len(stmts) : stmts[k].kind \in kinds})

(* C14: whatever fails while a message is handled (JSON.parse, the producer *)
(* connect, the SELECT, the mutation), handleMessage does not throw, no     *)
(* statement is issued twice, the store is as it was, and the consumer goes *)
(* on to the next message.                                                  *)
C14_PoisonMessage ==
    [][(Handles /\ last'.error # "none") =>
          /\ ~last'.thrown
          /\ Count(last'.stmts, {"select"}) <= 1
          /\ Count(last'.stmts, {"upsert", "delete"}) <= 1
          /\ db' = db]_vars

(* A change was applied and recorded right after a message that failed. *)
C14_Witness ==
    /\ handled = 2 /\ last.failed = 1
    /\ last.error = "none" /\ last.recorded

(* C18: an accepted delete of an existing row removes the row, whatever the *)
(* row's updated_at and version and whatever timestamp the message carries. *)
C18_DeleteWins ==
    [][(/\ Handles
        /\ last'.gate = "accept" /\ last'.operation = "d"
        /\ last'.recordId \in DOMAIN db[last'.table]
        /\ last'.error = "none") =>
          /\ last'.reason = "delete_operation"
          /\ last'.recordId \notin DOMAIN db'[last'.table]
          /\ \A i \in DOMAIN db[last'.table] \ {last'.recordId} :
                 i \in DOMAIN db'[last'.table]
                   /\ db'[last'.table][i] = db[last'.table][i]]_vars

(* A delete carrying a timestamp within 1000 ms of the row's removed it. *)
C18_Witness ==
    /\ last.operation = "d" /\ last.reason = "delete_operation"
    /\ last.tinc = 1300
    /\ last.recordId \notin DOMAIN db[last.table]

(* C19: an accepted create whose post-image is empty or absent issues no    *)
(* INSERT and leaves the store as it was.                                   *)
C19_EmptyCreateSkipped ==
    [][(/\ Handles
        /\ last'.gate = "accept" /\ last'.operation = "c"
        /\ last'.image \in {"empty", "absent"}) =>
          /\ Count(last'.stmts, {"upsert"}) = 0
          /\ db' = db]_vars

(* C20: a tombstone, a key or value that is not JSON, a value without       *)
(* _sync_origin, and a change with no id in key or payload cause no         *)
(* statement, no change of the store and no sync event.                     *)
C20_DecodeFailureSkipped ==
    [][(/\ Handles
        /\ \/ last'.valueText # "json"
           \/ last'.keyText = "garbage"
           \/ last'.source = NoOrigin
           \/ last'.recordId = NoId) =>
          /\ last'.stmts = <<>>
          /\ db' = db
          /\ metrics' = metrics
          /\ recordSyncTimes' = recordSyncTimes
          /\ calls' = calls]_vars

(* An update of sales from India with no id anywhere reached the resolver   *)
(* and was dropped there.                                                   *)
C20_Witness ==
    /\ last.decode = "ok" /\ last.gate = "accept"
    /\ last.recordId = NoId /\ last.reason = "no_record_id"
    /\ last.table = "sales" /\ last.operation = "u"

(* C15: a handler returns only with its statement executed or the message   *)
(* skipped, with no write pending; the offset is resolved only after the    *)
(* handler has returned; the next message is begun only after that.         *)
C15_SequentialHandling ==
    [][/\ (handler'.pc \in {"returned", "idle"}) => handler'.pending = <<>>
       /\ (handler'.acked # handler.acked) =>
              /\ handler.pc = "returned"
              /\ handler.outcome \in {"skipped", "written", "failed"}
       /\ (handled' # handled) =>
              /\ handler.pc = "idle"
              /\ handler.acked = handled]_vars

(* A second message was begun after the first one's write was executed and  *)
(* its offset resolved.                                                     *)
C15_Witness ==
    /\ handled = 2 /\ handler.acked = 1 /\ handler.pc = "resolving"
    /\ 2 \in DOMAIN db["sales"]

(* C16: a failed database test exits with code 1 with no consumer started   *)
(* and no listener; a failed Kafka initialisation exits nothing, and the    *)
(* next step of startServer is to listen.                                   *)
C16_StartupSequencing ==
    /\ (proc.dbTest = "failed") =>
          /\ proc.phase = "exited" /\ proc.exitCode = 1
          /\ proc.consumer = "not_started" /\ ~proc.listening
    /\ (proc.exitCode # 0) => (proc.consumer = "not_started" /\ ~proc.listening)
    /\ (proc.consumer = "failed" /\ proc.signal = "none") =>
          /\ proc.phase \in {"kafka_done", "serving"}
          /\ proc.phase = "serving" => proc.listening
          /\ proc.phase = "kafka_done" => ENABLED Listen

(* The server listens although the Kafka consumer failed to initialise. *)
C16_Witness ==
    /\ proc.dbTest = "ok" /\ proc.consumer = "failed"
    /\ proc.listening /\ proc.phase = "serving"

(* C17: when the process has exited on a signal, no handler was left in     *)
(* flight, no statement was left pending, and the pool was closed.          *)
C17_GracefulShutdown ==
    (proc.phase = "exited" /\ proc.signal # "none") =>
        /\ handler.pc \in {"idle", "returned"}
        /\ handler.pending = <<>>
        /\ proc.poolEnded

----------------------------------------------------------------------------
(* The resolver's rules *)

(* What handleMessage makes of e in a store dbv at time nowv: the gate's    *)
(* decision, the resolver's, the store afterwards and the recordSync call.  *)
Outcome(e, dbv, nowv) ==
    LET tableName == TableName(e.topic)
        gate == Gate(tableName, e.origin, Operation(e))
        r == ResolveConflict(e, tableName, dbv, nowv, TRUE, NoFault)
    IN  IF Decode(e) # "ok"
            THEN [gate |-> "none", reason |-> "none", db |-> dbv,
                  recorded |-> FALSE, latencyMs |-> 0]
        ELSE IF gate # "accept"
            THEN [gate |-> gate, reason |-> "none", db |-> dbv,
                  recorded |-> FALSE, latencyMs |-> 0]
        ELSE [gate |-> gate, reason |-> r.reason, db |-> r.db,
              recorded |-> r.recorded, latencyMs |-> r.latencyMs]

(* C21: in every store the consumer can reach, a change delivered wrapped   *)
(* under payload and the same change delivered flat get the same gate       *)
(* decision and the same resolver decision, leave the same rows and make    *)
(* the same recordSync call; deletes without a post-image included.         *)
C21_ShapeEquivalence ==
    \A e \in FlatResolverEnvelopes :
        Outcome(Wrapped(e), db, now) = Outcome(e, db, now)

(* A wrapped change was applied as the flat one is, and a wrapped delete    *)
(* without a post-image has removed its row.                                *)
C21_Witness ==
    /\ last.shape = "wrapped"
    /\ last.operation = "d"
    /\ last.reason = "delete_operation"
    /\ 1 \notin DOMAIN db["sales"]
    /\ handled = 2
    /\ db["sales"] # InitialDb["sales"]

(* C22: an accepted non-delete change on an existing row whose incoming     *)
(* updated_at is 1000 ms or more away from the row's: when it is newer the  *)
(* upsert of that row is issued; when it is older no mutating statement is  *)
(* issued and the store is left as it was.                                  *)
C22_TimestampRule ==
    [][(/\ Handles
        /\ last'.gate = "accept"
        /\ last'.operation # "d"
        /\ last'.recordId \in DOMAIN db[last'.table]
        /\ last'.tinc # NaN
        /\ Abs(last'.tinc - db[last'.table][last'.recordId]["updated_at"]) >= 1000) =>
          LET tl == db[last'.table][last'.recordId]["updated_at"]
          IN  /\ last'.tinc > tl =>
                    /\ last'.reason = "newer_timestamp"
                    /\ \E stmt \in Statements(last') :
                            /\ stmt.kind = "upsert"
                            /\ stmt.table = last'.table
                            /\ stmt.values["id"] = last'.recordId
              /\ last'.tinc < tl =>
                    /\ last'.reason = "older_timestamp"
                    /\ \A stmt \in Statements(last') : ~Mutating(stmt)
                    /\ db' = db]_vars

(* A newer change was applied to sales row 1, then a change 1500 ms older   *)
(* than the row was skipped.                                                *)
C22_Witness ==
    /\ handled = 2
    /\ last.gate = "accept"
    /\ last.reason = "older_timestamp"
    /\ last.tinc = 0
    /\ db["sales"][1]["updated_at"] = 1500
    /\ db["sales"][1]["quantity"] = 8

(* The accepted changes of the resolver runs whose id has no row in dbv. *)
ChangesOfAbsentRows(dbv) ==
    {e \in ResolverEnvelopes :
        /\ Decode(e) = "ok"
        /\ Gate(TableName(e.topic), e.origin, Operation(e)) = "accept"
        /\ RecordId(e) # NoId
        /\ RecordId(e) \notin DOMAIN dbv[TableName(e.topic)]}

(* C23: in every store the consumer can reach, an accepted change whose id  *)
(* has no local row is applied without a comparison, whatever its           *)
(* updated_at: a delete leaves the store as it is; a change carrying a      *)
(* post-image (its numbers below 1e11) creates the row, with the payload's  *)
(* updated_at and sync_source (not the server clock), null user references, *)
(* the payload's other columns, and no private column; no other row         *)
(* changes.                                                                 *)
C23_AbsentRowRule ==
    \A e \in ChangesOfAbsentRows(db) :
        LET t == TableName(e.topic)
            id == RecordId(e)
            nd == NewData(e)
            r == ResolveConflict(e, t, db, now, TRUE, NoFault)
        IN  /\ r.reason = "new_record"
            /\ Operation(e) = "d" =>
                    /\ r.db = db
                    /\ r.stmts[Len(r.stmts)].kind = "delete"
            /\ (/\ Operation(e) # "d"
                /\ e.hasAfter
                /\ \A c \in DOMAIN nd \cap NumberColumns : nd[c].tag = "num") =>
                    /\ DOMAIN r.db[t] = DOMAIN db[t] \cup {id}
                    /\ \A u \in Tables : \A i \in DOMAIN db[u] : r.db[u][i] = db[u][i]
                    /\ r.db[t][id]["updated_at"] = ToMillis(nd, "updated_at")
                    /\ "sync_source" \in DOMAIN nd =>
                            r.db[t][id]["sync_source"] = nd["sync_source"]
                    /\ \A c \in DOMAIN nd \cap Schema(t) :
                            r.db[t][id][c] = IF c \in FOREIGN_KEY_FIELDS THEN "NULL"
                                             ELSE IF c = "updated_at"
                                                THEN ToMillis(nd, "updated_at")
                                             ELSE nd[c]
                    /\ DOMAIN r.db[t][id] \cap PRIVATE_FIELDS = {}

(* A create of sales row 2 stamped 2000 was applied when the server clock   *)
(* read 3500: the new row carries the payload's instant and sync_source.    *)
C23_Witness ==
    /\ last.reason = "new_record"
    /\ last.operation = "c"
    /\ last.recordId = 2
    /\ now = 3500
    /\ 2 \in DOMAIN db["sales"]
    /\ db["sales"][2]["updated_at"] = 2000
    /\ db["sales"][2]["sync_source"] = "india"
    /\ db["sales"][2]["salesperson_user_id"] = "NULL"

(* C24: an accepted non-delete change on an existing row whose incoming     *)
(* updated_at equals the row's is decided by the versions (a missing one    *)
(* counting as 0): applied with reason higher_version when the incoming     *)
(* version is greater, skipped with reason same_or_older_version otherwise. *)
C24_VersionTieBreak ==
    [][(/\ Handles
        /\ last'.gate = "accept"
        /\ last'.operation # "d"
        /\ last'.recordId \in DOMAIN db[last'.table]
        /\ last'.tinc # NaN
        /\ last'.tinc = db[last'.table][last'.recordId]["updated_at"]) =>
          IF last'.version > VersionOf(db[last'.table][last'.recordId])
            THEN /\ last'.reason = "higher_version"
                 /\ \E stmt \in Statements(last') : stmt.kind = "upsert"
            ELSE /\ last'.reason = "same_or_older_version"
                 /\ db' = db]_vars

(* The versions a payload or a local row can carry. *)
Versions == 0 .. 2

(* The accepted non-delete changes of the resolver runs on a row of dbv. *)
ChangesOfExistingRows(dbv) ==
    {e \in ResolverEnvelopes :
        /\ Decode(e) = "ok"
        /\ Gate(TableName(e.topic), e.origin, Operation(e)) = "accept"
        /\ Operation(e) # "d"
        /\ RecordId(e) \in DOMAIN dbv[TableName(e.topic)]}

(* C25: no handled message ends with reason higher_version or               *)
(* same_or_older_version, and in every store the consumer can reach the     *)
(* decision on a change of an existing row is the same whatever version     *)
(* the payload and the row carry: a change within 100 ms of the row is      *)
(* within 1000 ms of it and is returned by the loop check.                  *)
C25_TieBreakIsDead ==
    /\ last.reason \notin {"higher_version", "same_or_older_version"}
    /\ \A e \in ChangesOfExistingRows(db) :
        LET t == TableName(e.topic)
            id == RecordId(e)
            nd == NewData(e)
            d == Decide(db[t], id, Operation(e), nd)
        IN  /\ d.reason \notin {"higher_version", "same_or_older_version"}
            /\ (/\ ToMillis(nd, "updated_at") # NaN
                /\ Abs(ToMillis(nd, "updated_at") - db[t][id]["updated_at"]) < TieWindowMs)
                    => d.reason = "loop_prevention_rapid_update"
            /\ \A vi \in Versions, vl \in Versions :
                    Decide([db[t] EXCEPT ![id]["version"] = vl], id, Operation(e),
                           ("version" :> vi) @@ nd) = d

(* A change stamped with the row's own instant and a higher version than    *)
(* the row's was returned by the loop check, the row keeping its version.   *)
C25_Witness ==
    /\ last.gate = "accept"
    /\ last.reason = "loop_prevention_rapid_update"
    /\ last.recordId \in DOMAIN db[last.table]
    /\ last.tinc = db[last.table][last.recordId]["updated_at"]
    /\ last.version = 2
    /\ VersionOf(db[last.table][last.recordId]) = 1

(* C26: in every store the consumer can reach, a non-delete change that is  *)
(* applied to an existing row overwrites every payload column that is not   *)
(* metadata, private, sync_source or updated_at with the payload's value    *)
(* (null for a user reference), sets updated_at to the server's clock,      *)
(* keeps the row's sync_source and every column the payload does not        *)
(* carry, and changes no other row.                                         *)
C26_UpsertOnExistingRow ==
    \A e \in ChangesOfExistingRows(db) :
        LET t == TableName(e.topic)
            id == RecordId(e)
            nd == NewData(e)
            old == db[t][id]
            r == ResolveConflict(e, t, db, now, TRUE, NoFault)
            written == {c \in DOMAIN nd \cap Schema(t) :
                            /\ ~StartsWithUnderscore(c)
                            /\ c \notin PRIVATE_FIELDS
                            /\ c \notin {"sync_source", "updated_at"}}
        IN  (r.recorded /\ e.hasAfter) =>
                /\ DOMAIN r.db[t] = DOMAIN db[t]
                /\ \A u \in Tables : \A i \in DOMAIN db[u] :
                        (u # t \/ i # id) => r.db[u][i] = db[u][i]
                /\ r.db[t][id]["updated_at"] = now
                /\ r.db[t][id]["sync_source"] = old["sync_source"]
                /\ \A c \in written :
                        r.db[t][id][c] = IF c \in FOREIGN_KEY_FIELDS THEN "NULL"
                                         ELSE nd[c]
                /\ \A c \in Schema(t) \ (written \cup {"updated_at"}) :
                        r.db[t][id][c] = old[c]

(* An update from india stamped 2000 was applied to products row 1 when the *)
(* server clock read 3500: the row keeps sync_source china, takes the       *)
(* payload's stock and version, and is stamped with the server's clock.     *)
C26_Witness ==
    /\ last.table = "products"
    /\ last.reason = "newer_timestamp"
    /\ last.recorded
    /\ last.tinc = 2000
    /\ now = 3500
    /\ db["products"][1]["updated_at"] = 3500
    /\ db["products"][1]["sync_source"] = "china"
    /\ db["products"][1]["stock_quantity"] = 9
    /\ db["products"][1]["version"] = 2
    /\ db["products"][1]["created_by_user_id"] = "NULL"

EndsWithAt(c) == Len(c) >= 3 /\ SubSeq(c, Len(c) - 2, Len(c)) = "_at"

ContainsDate(c) == \E k \in 1 .. Len(c) - 3 : SubSeq(c, k, k + 3) = "date"

(* The columns of a payload the resolver is to pass through as they are. *)
PassThroughColumns(newData) ==
    {c \in DOMAIN newData :
        /\ ~StartsWithUnderscore(c)
        /\ ~EndsWithAt(c)
        /\ ~ContainsDate(c)
        /\ c \notin PRIVATE_FIELDS \cup FOREIGN_KEY_FIELDS}

(* C27: the statement built for a change names no column beginning with _,  *)
(* and binds every other column that is not named *_at, does not contain    *)
(* "date" and is not a private or user-reference column to exactly the      *)
(* payload's value, large integers included.                                *)
C27_ColumnPassThrough ==
    \A e \in ChangesOfExistingRows(db) :
        LET t == TableName(e.topic)
            id == RecordId(e)
            nd == NewData(e)
            stmt == UpsertStmt(t, id, nd)
        IN  e.hasAfter =>
                /\ \A c \in stmt.columns : ~StartsWithUnderscore(c)
                /\ PassThroughColumns(nd) \subseteq stmt.columns
                /\ \A c \in PassThroughColumns(nd) : stmt.values[c] = nd[c]

----------------------------------------------------------------------------
(* The metrics store *)

(* The calls of recordSync each event of a ring comes from. *)
RingOrdinals(ring) == {ring[k].latencyMs : k \in 1 .. Len(ring)}

(* The calls since call number first that the workload makes for a          *)
(* direction.                                                               *)
CallsFor(direction, first) ==
    {n \in first .. TotalCalls :
        /\ n > MaxFreeCalls
        /\ Direction(WorkloadSource(n), Destination(WorkloadSource(n))) = direction}

(* C28: between calls, the ring of each direction holds the events of the   *)
(* most recent min(N, 100) calls made for it, oldest first (every call made *)
(* for it since the ring's oldest event has its event in the ring), and the *)
(* recentSyncs of getStats are the last min(10, length) events of the ring, *)
(* newest first.                                                            *)
C28_RingFifo ==
    \A d \in DOMAIN metrics :
        LET ring == metrics[d]
            recentSyncs == RecentSyncsOf(EventsOf(metrics, d))
        IN  /\ Len(ring) = Min(calls[d], maxEvents)
            /\ \A k \in 1 .. Len(ring) - 1 : ring[k].latencyMs < ring[k + 1].latencyMs
            /\ Len(ring) > 0 =>
                    CallsFor(d, ring[1].latencyMs) \subseteq RingOrdinals(ring)
            /\ Len(recentSyncs) = Min(Len(ring), RecentSyncs)
            /\ \A k \in 1 .. Len(recentSyncs) :
                    /\ recentSyncs[k].latencyMs = ring[Len(ring) + 1 - k].latencyMs
                    /\ recentSyncs[k].recordId = ring[Len(ring) + 1 - k].recordId
                    /\ recentSyncs[k].table = ring[Len(ring) + 1 - k].tableName

(* After 140 calls the india-to-china ring has dropped its oldest events,   *)
(* and getStats has listed its ten newest, the 139th call's first.          *)
C28_Witness ==
    /\ calls["india-to-china"] > maxEvents
    /\ Len(metrics["india-to-china"]) = maxEvents
    /\ metrics["india-to-china"][1].latencyMs > MaxFreeCalls + 1
    /\ reply.call = "getStats"
    /\ reply.direction = "india-to-china"
    /\ Len(reply.stats.recentSyncs) = RecentSyncs
    /\ reply.stats.recentSyncs[1].latencyMs = 139
    /\ reply.stats.recentSyncs[1].latencyMs > reply.stats.recentSyncs[RecentSyncs].latencyMs

(* A step that is a call of getStats. *)
ReadsStats == calls' = calls /\ reply'.call = "getStats"

(* C30: a call of getStats leaves the rings and the per-record map as they  *)
(* were, and what it returns is computed from the ring of the direction     *)
(* asked for: totalSyncs is the ring's length (at most 100), minLatencyMs   *)
(* <= avgLatencyMs <= maxLatencyMs, lastSyncLatencyMs and lastSyncTime are  *)
(* those of the ring's last event; for a direction with no events or no     *)
(* ring every counter is 0, lastSyncTime is null and recentSyncs is empty.  *)
C30_GetStatsIsPure ==
    [][ReadsStats =>
        LET ring == EventsOf(metrics, reply'.direction)
            stats == reply'.stats
        IN  /\ metrics' = metrics
            /\ recordSyncTimes' = recordSyncTimes
            /\ stats.totalSyncs = Len(ring)
            /\ stats.totalSyncs <= maxEvents
            /\ stats.minLatencyMs <= stats.avgLatencyMs
            /\ stats.avgLatencyMs <= stats.maxLatencyMs
            /\ \A k \in 1 .. Len(ring) :
                    /\ stats.minLatencyMs <= ring[k].latencyMs
                    /\ ring[k].latencyMs <= stats.maxLatencyMs
            /\ Len(ring) > 0 =>
                    /\ stats.lastSyncLatencyMs = ring[Len(ring)].latencyMs
                    /\ stats.lastSyncTime = ring[Len(ring)].timestamp
                    /\ 2 * Len(ring) * stats.avgLatencyMs - Len(ring)
                            <= 2 * SumLatency(ring)
                    /\ 2 * SumLatency(ring)
                            < 2 * Len(ring) * stats.avgLatencyMs + Len(ring)
            /\ Len(ring) = 0 =>
                    stats = [totalSyncs |-> 0, avgLatencyMs |-> 0, minLatencyMs |-> 0,
                             maxLatencyMs |-> 0, lastSyncTime |-> NullTime,
                             lastSyncLatencyMs |-> 0, syncsLastMinute |-> 0,
                             avgLastMinuteMs |-> 0, recentSyncs |-> <<>>]]_vars

(* getStats was asked for the wrapped india-to-china ring after 140 calls:  *)
(* 100 events, the newest from the 139th call, the oldest not the first.    *)
C30_Witness ==
    /\ reply.call = "getStats"
    /\ reply.direction = "india-to-china"
    /\ reply.stats.totalSyncs = maxEvents
    /\ reply.stats.lastSyncLatencyMs = 139
    /\ reply.stats.minLatencyMs > 1
    /\ reply.stats.minLatencyMs < reply.stats.avgLatencyMs
    /\ reply.stats.avgLatencyMs < reply.stats.maxLatencyMs
    /\ metrics["india-to-china"][maxEvents].latencyMs = 139

(* The records the per-record map holds. *)
KeysOf(rst) == {rst[k].key : k \in 1 .. Len(rst)}

(* C29: after a call of recordSync for a record, getRecordSyncTime returns  *)
(* for that record the data of this call, for every other record it held    *)
(* what it returned before, and nothing for a record never synced; and      *)
(* when the call drops a record from the full map, that record's last sync  *)
(* is older than the last sync of every record the map keeps.               *)
C29_LatestSyncPerRecord ==
    [][calls' # calls =>
        LET n == TotalCalls + 1
            synced == {k \in 1 .. Len(recordSyncTimes') :
                            recordSyncTimes'[k].latencyMs = n}
            dropped == {k \in 1 .. Len(recordSyncTimes) :
                            recordSyncTimes[k].key \notin KeysOf(recordSyncTimes')}
        IN  /\ Cardinality(synced) = 1
            /\ \A k \in synced :
                    LET key == recordSyncTimes'[k].key
                        data == GetRecordSyncTime(recordSyncTimes', key[1], key[2], now)
                    IN  data.found /\ data.latencyMs = n /\ data.timestamp = now
            /\ ~GetRecordSyncTime(recordSyncTimes', "users", 1, now).found
            /\ Len(recordSyncTimes) = MaxRecordSyncTimes =>
                    \A k \in dropped : \A j \in 1 .. Len(recordSyncTimes') :
                        recordSyncTimes[k].latencyMs < recordSyncTimes'[j].latencyMs]_vars


(* ------------------------------------------------------------------------ *)
(* Updates of absent rows, unusable timestamps, the metrics store and the   *)
(* producer connection                                                      *)
(* ------------------------------------------------------------------------ *)

(* C32: a products change from the peer whose op is u, or whose value has   *)
(* no op, and whose id names no local row passes the gate, is decided as a  *)
(* new record and leaves a products row with that id in the store.          *)
C32_PeerUpdateInserts ==
    [][(/\ Handles
        /\ last'.decode = "ok" /\ last'.table = "products"
        /\ last'.source = Peer("china") /\ last'.op \in {"u", NoOp}
        /\ last'.recordId \in Ids \ DOMAIN db["products"]
        /\ last'.error = "none") =>
          /\ last'.gate = "accept"
          /\ last'.reason = "new_record"
          /\ Count(last'.stmts, {"upsert"}) = 1
          /\ DOMAIN db'["products"] = DOMAIN db["products"] \cup {last'.recordId}]_vars

(* A value without op put products row 2 into the store. *)
C32_Witness ==
    /\ last.table = "products" /\ last.op = NoOp /\ last.source = "india"
    /\ last.reason = "new_record" /\ last.recorded
    /\ 2 \in DOMAIN db["products"] /\ 2 \notin DOMAIN InitialDb["products"]

(* C33: an accepted non-delete change of an existing row whose payload has  *)
(* no updated_at, or one that is not a timestamp, is skipped as older: no   *)
(* mutating statement is issued and the store is unchanged, whatever the    *)
(* payload's version.                                                       *)
C33_UnknownTimestampSkipped ==
    [][(/\ Handles
        /\ last'.gate = "accept" /\ last'.operation # "d"
        /\ last'.image = "present" /\ last'.tinc = NaN
        /\ last'.recordId \in DOMAIN db[last'.table]
        /\ last'.error = "none") =>
          /\ last'.reason = "older_timestamp"
          /\ \A k \in 1..Len(last'.stmts) : ~Mutating(last'.stmts[k])
          /\ ~last'.recorded
          /\ db' = db]_vars

(* A change with a higher version and no updated_at was skipped. *)
C33_Witness ==
    /\ last.gate = "accept" /\ last.tinc = NaN /\ last.image = "present"
    /\ last.recordId \in DOMAIN db[last.table]
    /\ last.version > db[last.table][last.recordId]["version"]
    /\ last.reason = "older_timestamp"

(* An upsert of the latest message returned without an error. *)
UpsertCompleted(l) ==
    /\ l.error = "none"
    /\ Count(l.stmts, {"upsert"}) = 1

(* C34: a message records a sync event exactly when its upsert completed,   *)
(* and the event goes to the india-to-china ring; the china-to-india ring   *)
(* stays empty.                                                             *)
C34_RecordedIffUpserted ==
    [][Handles =>
          /\ UpsertCompleted(last') <=>
               /\ calls'["india-to-china"] = calls["india-to-china"] + 1
               /\ metrics'["india-to-china"] # metrics["india-to-china"]
          /\ ~UpsertCompleted(last') =>
               /\ metrics' = metrics /\ calls' = calls
               /\ recordSyncTimes' = recordSyncTimes
          /\ metrics'["china-to-india"] = <<>>
          /\ calls'["china-to-india"] = 0]_vars

(* An applied delete recorded nothing after an upsert had recorded an event. *)
C34_Witness ==
    /\ handled = 2
    /\ last.operation = "d" /\ last.reason = "delete_operation"
    /\ last.error = "none" /\ ~last.recorded
    /\ Len(metrics["india-to-china"]) = 1
    /\ metrics["china-to-india"] = <<>>

(* C35: a message whose producer.connect() fails issues no statement and    *)
(* leaves the store as it was; a statement is issued only with the producer *)
(* connected; once connected the producer stays connected and connect is    *)
(* not attempted again.                                                     *)
C35_ConnectBeforeStore ==
    [][Handles =>
          /\ (last'.gate = "accept" /\ ~producerConnected /\ last'.fault = "connect") =>
                /\ last'.error = "connect" /\ last'.stmts = <<>>
                /\ db' = db /\ ~producerConnected'
          /\ last'.stmts # <<>> => producerConnected'
          /\ producerConnected =>
                /\ producerConnected'
                /\ last'.error # "connect"]_vars

(* With the producer connected by an earlier message, a message whose       *)
(* connect would fail was applied.                                          *)
C35_Witness ==
    /\ handled = 2 /\ producerConnected
    /\ last.fault = "connect" /\ last.error = "none" /\ last.recorded


(* The handler's pending INSERT ... ON CONFLICT is executed by this step. *)
UpsertExecutes ==
    /\ handler.pending # <<>> /\ handler'.pending = <<>>
    /\ handler.pending[1].kind = "upsert"
    /\ handler'.outcome = "written"

(* C31: when the resolver's upsert executes, the row is absent or its       *)
(* updated_at is at least 1000 ms older than the incoming timestamp, also   *)
(* with a PUT /api/products/:id between the resolver's SELECT and upsert.   *)
C31_NoStaleWrite ==
    [][UpsertExecutes =>
          LET stmt == handler.pending[1]
              rows == db[stmt.table]
              incoming == ToMillis(NewData(handler.envelope), "updated_at")
          IN  \/ stmt.id \notin DOMAIN rows
              \/ incoming - rows[stmt.id]["updated_at"] >= LoopWindowMs]_vars

====
